---- MODULE Spec2Model ----
(***************************************************************************)
(* Model of packages/controllers/src/secure_admin.rs: the SecureAdmin      *)
(* two-step admin transfer state machine.  One persisted Item<AdminState>, *)
(* two mutations (initialize, update) and the queries they are built on.   *)
(***************************************************************************)
EXTENDS Integers, Sequences, FiniteSets, TLC

VARIABLES
    storage,      \* the Item<AdminState> slot: None (no record) or Some(AdminState)
    preStorage,   \* the slot as it was when the last call started
    lastCall,     \* the last call made: function, message, sender
    result,       \* what the last call returned: "Ok" or the SecureAdminError variant
    response,     \* attributes of the Response of the last call (None unless update returned Ok)
    initialized,  \* TRUE once some initialize call has returned Ok
    view,         \* the SecureAdminResponse of the last call when it was a query, else None
    proposal,     \* who made the last successful ProposeNewAdmin, and for whom, while it stands
    inflight,     \* per transaction: where a call that runs step by step stands, and its locals
    exclusive     \* TRUE when the host runs one call at a time, from its load to its save

vars == <<storage, preStorage, lastCall, result, response, initialized, view, proposal,
          inflight, exclusive>>

-----------------------------------------------------------------------------
(* Option<T> *)

None == <<>>

Some(x) == <<x>>

is_some(o) == o # None

unwrap(o) == o[1]

-----------------------------------------------------------------------------
(* Bounds and the identities the callers use *)

MaxIdentities == 3

AddrPool == <<"peter_parker", "miles_morales", "doc_oc", "abc", "xyz">>

\* well formed identity strings in use
Identities ==
    {AddrPool[i] : i \in 1..(IF MaxIdentities < Len(AddrPool) THEN MaxIdentities ELSE Len(AddrPool))}

\* strings the identity validator rejects
MalformedRaw == {"", "ab"}

\* the raw strings a message may carry
RawIdentities == Identities \cup MalformedRaw

\* info.sender: an Addr handed in by the host, not validated by this code
Senders == Identities \cup {"ab"}

-----------------------------------------------------------------------------
(* Types of the source *)

\* struct AdminState
AdminState(abolished, admin, proposed) ==
    [abolished |-> abolished, admin |-> admin, proposed |-> proposed]

\* enum AdminInit
SetInitialAdmin(admin) == [type |-> "SetInitialAdmin", arg |-> Some(admin)]

InitAbolishAdminRole == [type |-> "AbolishAdminRole", arg |-> None]

\* enum SecureAdminUpdate
ProposeNewAdmin(proposed) == [type |-> "ProposeNewAdmin", arg |-> Some(proposed)]

ClearProposed == [type |-> "ClearProposed", arg |-> None]

AcceptProposed == [type |-> "AcceptProposed", arg |-> None]

AbolishAdminRole == [type |-> "AbolishAdminRole", arg |-> None]

\* struct SecureAdminResponse
SecureAdminResponse(admin, proposed) == [admin |-> admin, proposed |-> proposed]

\* Result<T, SecureAdminError>: err is "Ok" or the name of the error variant
Ok(v) == [err |-> "Ok", val |-> v]

Err(e) == [err |-> e, val |-> None]

-----------------------------------------------------------------------------
(* Collaborators *)

\* Api::addr_validate: the canonical Addr of a well formed string, StdError otherwise
addr_validate(raw) ==
    IF raw \in MalformedRaw THEN Err("Std") ELSE Ok(raw)

\* Addr -> String (Into::into, to_string)
AddrToString(addr) == addr

-----------------------------------------------------------------------------
(* Queries *)

\* fn state: a missing record reads as the uninitialized default
state(store) ==
    IF store = None
    THEN AdminState(FALSE, None, None)
    ELSE unwrap(store)

current(store) == state(store).admin

\* is_admin with the None case answering true
is_admin_NoneMatches(store, addr) ==
    IF is_some(current(store)) /\ unwrap(current(store)) # addr THEN FALSE ELSE TRUE

is_admin(store, addr) ==
    IF is_some(current(store)) /\ unwrap(current(store)) = addr THEN TRUE ELSE FALSE

proposed(store) == state(store).proposed

\* is_proposed with the None case answering true
is_proposed_NoneMatches(store, addr) ==
    IF is_some(proposed(store)) /\ unwrap(proposed(store)) # addr THEN FALSE ELSE TRUE

is_proposed(store, addr) ==
    IF is_some(proposed(store)) /\ unwrap(proposed(store)) = addr THEN TRUE ELSE FALSE

\* the map to strings with None rendered as an empty string
MapToString_NoneAsEmpty(o) == IF is_some(o) THEN Some(AddrToString(unwrap(o))) ELSE Some("")

MapToString(o) == IF is_some(o) THEN Some(AddrToString(unwrap(o))) ELSE None

query(store) ==
    SecureAdminResponse(MapToString(current(store)), MapToString(proposed(store)))

-----------------------------------------------------------------------------
(* Assertions *)

\* assert_admin with the negation dropped
assert_admin_Inverted(store, caller) ==
    IF is_admin(store, caller) THEN Err("NotAdmin") ELSE Ok(None)

\* assert_admin that lets every caller through
assert_admin_AlwaysOk(store, caller) == Ok(None)

\* assert_admin that also lets the proposed admin through
assert_admin_AcceptsProposed(store, caller) ==
    IF ~is_admin(store, caller) /\ ~is_proposed(store, caller)
    THEN Err("NotAdmin")
    ELSE Ok(None)

assert_admin(store, caller) ==
    IF ~is_admin(store, caller) THEN Err("NotAdmin") ELSE Ok(None)

\* assert_proposed checking the admin instead of the proposed admin
assert_proposed_ChecksAdmin(store, caller) ==
    IF ~is_admin(store, caller) THEN Err("NotProposedAdmin") ELSE Ok(None)

assert_proposed(store, caller) ==
    IF ~is_proposed(store, caller) THEN Err("NotProposedAdmin") ELSE Ok(None)

-----------------------------------------------------------------------------
(* Mutations *)

\* SetInitialAdmin arm that also records the new admin as proposed
InitSetInitialAdminArm_SetsProposed(store, admin) ==
    LET validated == addr_validate(admin) IN
    IF validated.err # "Ok"
    THEN [result |-> validated.err, storage |-> store]
    ELSE [result |-> "Ok",
          storage |-> Some(AdminState(FALSE, Some(validated.val), Some(validated.val)))]

\* SetInitialAdmin arm that writes the default record before it validates
InitSetInitialAdminArm_SavesBeforeValidate(store, admin) ==
    LET validated == addr_validate(admin) IN
    IF validated.err # "Ok"
    THEN [result |-> validated.err, storage |-> Some(AdminState(FALSE, None, None))]
    ELSE [result |-> "Ok",
          storage |-> Some(AdminState(FALSE, Some(validated.val), None))]

\* SetInitialAdmin arm that stores the raw string without validating it
InitSetInitialAdminArm_SkipsValidation(store, admin) ==
    [result |-> "Ok", storage |-> Some(AdminState(FALSE, Some(admin), None))]

\* initialize, arm AdminInit::SetInitialAdmin
InitSetInitialAdminArm(store, admin) ==
    LET validated == addr_validate(admin) IN
    IF validated.err # "Ok"
    THEN [result |-> validated.err, storage |-> store]
    ELSE [result |-> "Ok",
          storage |-> Some(AdminState(FALSE, Some(validated.val), None))]

\* AbolishAdminRole arm of initialize that forgets the flag
InitAbolishAdminRoleArm_FlagNotSet(store) ==
    [result |-> "Ok", storage |-> Some(AdminState(FALSE, None, None))]

\* initialize, arm AdminInit::AbolishAdminRole
InitAbolishAdminRoleArm(store) ==
    [result |-> "Ok", storage |-> Some(AdminState(TRUE, None, None))]

\* initialize without the abolished guard
initialize_NoAbolishedGuard(store, init_action) ==
    LET st == state(store) IN
    IF is_some(st.admin)
    THEN [result |-> "AlreadyInitialized", storage |-> store]
    ELSE IF init_action.type = "SetInitialAdmin"
    THEN InitSetInitialAdminArm(store, unwrap(init_action.arg))
    ELSE InitAbolishAdminRoleArm(store)

\* initialize without the already-initialized guard
initialize_NoInitializedGuard(store, init_action) ==
    LET st == state(store) IN
    IF st.abolished
    THEN [result |-> "AdminRoleAbolished", storage |-> store]
    ELSE IF init_action.type = "SetInitialAdmin"
    THEN InitSetInitialAdminArm(store, unwrap(init_action.arg))
    ELSE InitAbolishAdminRoleArm(store)

\* initialize taking the presence of a record, not its admin, as "initialized"
initialize_ChecksPresence(store, init_action) ==
    LET st == state(store) IN
    IF st.abolished
    THEN [result |-> "AdminRoleAbolished", storage |-> store]
    ELSE IF is_some(store)
    THEN [result |-> "AlreadyInitialized", storage |-> store]
    ELSE IF init_action.type = "SetInitialAdmin"
    THEN InitSetInitialAdminArm(store, unwrap(init_action.arg))
    ELSE InitAbolishAdminRoleArm(store)

initialize(store, init_action) ==
    LET st == state(store) IN
    IF st.abolished
    THEN [result |-> "AdminRoleAbolished", storage |-> store]
    ELSE IF is_some(st.admin)
    THEN [result |-> "AlreadyInitialized", storage |-> store]
    ELSE IF init_action.type = "SetInitialAdmin"
    THEN InitSetInitialAdminArm(store, unwrap(init_action.arg))
    ELSE InitAbolishAdminRoleArm(store)

\* ProposeNewAdmin arm that refuses to overwrite a pending proposal
ProposeNewAdminArm_NoOverwrite(st, store, sender, raw) ==
    LET a == assert_admin(store, sender)
        validated == addr_validate(raw) IN
    IF a.err # "Ok" THEN Err(a.err)
    ELSE IF validated.err # "Ok" THEN Err(validated.err)
    ELSE IF is_some(st.proposed) THEN Ok(st)
    ELSE Ok([st EXCEPT !.proposed = Some(validated.val)])

\* ProposeNewAdmin arm that stores the raw string without validating it
ProposeNewAdminArm_SkipsValidation(st, store, sender, raw) ==
    LET a == assert_admin(store, sender) IN
    IF a.err # "Ok" THEN Err(a.err)
    ELSE Ok([st EXCEPT !.proposed = Some(raw)])

\* ProposeNewAdmin arm that validates the identity before it checks the caller
ProposeNewAdminArm_ValidatesFirst(st, store, sender, raw) ==
    LET a == assert_admin(store, sender)
        validated == addr_validate(raw) IN
    IF validated.err # "Ok" THEN Err(validated.err)
    ELSE IF a.err # "Ok" THEN Err(a.err)
    ELSE Ok([st EXCEPT !.proposed = Some(validated.val)])

\* transition_state, arm SecureAdminUpdate::ProposeNewAdmin
ProposeNewAdminArm(st, store, sender, raw) ==
    LET a == assert_admin(store, sender)
        validated == addr_validate(raw) IN
    IF a.err # "Ok" THEN Err(a.err)
    ELSE IF validated.err # "Ok" THEN Err(validated.err)
    ELSE Ok([st EXCEPT !.proposed = Some(validated.val)])

\* AbolishAdminRole arm that leaves the pending proposal in place
AbolishAdminRoleArm_KeepsProposed(st, store, sender) ==
    LET a == assert_admin(store, sender) IN
    IF a.err # "Ok" THEN Err(a.err)
    ELSE Ok([st EXCEPT !.abolished = TRUE, !.admin = None])

\* AbolishAdminRole arm that only sets the flag
AbolishAdminRoleArm_KeepsAdmin(st, store, sender) ==
    LET a == assert_admin(store, sender) IN
    IF a.err # "Ok" THEN Err(a.err)
    ELSE Ok([st EXCEPT !.abolished = TRUE, !.proposed = None])

\* AbolishAdminRole arm that refuses while a proposal is pending
AbolishAdminRoleArm_RefusesWithProposal(st, store, sender) ==
    LET a == assert_admin(store, sender) IN
    IF a.err # "Ok" THEN Err(a.err)
    ELSE IF is_some(st.proposed) THEN Err("NotAdmin")
    ELSE Ok([st EXCEPT !.abolished = TRUE, !.proposed = None, !.admin = None])

\* transition_state, arm SecureAdminUpdate::AbolishAdminRole
AbolishAdminRoleArm(st, store, sender) ==
    LET a == assert_admin(store, sender) IN
    IF a.err # "Ok" THEN Err(a.err)
    ELSE Ok([st EXCEPT !.abolished = TRUE, !.proposed = None, !.admin = None])

\* ClearProposed arm that fails when there is nothing to clear
ClearProposedArm_RequiresProposal(st, store, sender) ==
    LET a == assert_admin(store, sender) IN
    IF a.err # "Ok" THEN Err(a.err)
    ELSE IF ~is_some(st.proposed) THEN Err("NotProposedAdmin")
    ELSE Ok([st EXCEPT !.proposed = None])

\* transition_state, arm SecureAdminUpdate::ClearProposed
ClearProposedArm(st, store, sender) ==
    LET a == assert_admin(store, sender) IN
    IF a.err # "Ok" THEN Err(a.err)
    ELSE Ok([st EXCEPT !.proposed = None])

\* AcceptProposed arm that promotes the caller but keeps the proposal pending
AcceptProposedArm_KeepsProposed(st, store, sender) ==
    LET a == assert_proposed(store, sender) IN
    IF a.err # "Ok" THEN Err(a.err)
    ELSE Ok([st EXCEPT !.admin = Some(sender)])

\* AcceptProposed arm that clears the proposal first and promotes what is left of it
AcceptProposedArm_ClearsFirst(st, store, sender) ==
    LET a == assert_proposed(store, sender) IN
    IF a.err # "Ok" THEN Err(a.err)
    ELSE Ok([st EXCEPT !.admin = None, !.proposed = None])

\* transition_state, arm SecureAdminUpdate::AcceptProposed
AcceptProposedArm(st, store, sender) ==
    LET a == assert_proposed(store, sender) IN
    IF a.err # "Ok" THEN Err(a.err)
    ELSE Ok([st EXCEPT !.admin = Some(sender), !.proposed = None])

\* transition_state, the match on the event: st is the record loaded at the
\* start, store the storage the assertions read
match_event(st, store, sender, event) ==
    CASE event.type = "ProposeNewAdmin" ->
            ProposeNewAdminArm(st, store, sender, unwrap(event.arg))
      [] event.type = "AbolishAdminRole" ->
            AbolishAdminRoleArm(st, store, sender)
      [] event.type = "ClearProposed" ->
            ClearProposedArm(st, store, sender)
      [] event.type = "AcceptProposed" ->
            AcceptProposedArm(st, store, sender)

transition_state(store, sender, event) ==
    LET st == state(store) IN
    IF st.abolished
    THEN Err("AdminRoleAbolished")
    ELSE match_event(st, store, sender, event)

\* the rendering of an absent value as an empty string
unwrap_or_none_Empty(o) == IF is_some(o) THEN unwrap(o) ELSE ""

\* Option<String>::unwrap_or_else(|| "None".to_string())
unwrap_or_none(o) == IF is_some(o) THEN unwrap(o) ELSE "None"

\* update that writes the loaded record back when the transition fails
update_SavesOnError(store, sender, upd) ==
    LET new_state == transition_state(store, sender, upd) IN
    IF new_state.err # "Ok"
    THEN [result |-> new_state.err, storage |-> Some(state(store)), response |-> None]
    ELSE LET saved == Some(new_state.val)
             res == query(saved)
         IN  [result |-> "Ok",
              storage |-> saved,
              response |-> Some(<< <<"action", "update_admin">>,
                                   <<"admin", unwrap_or_none(res.admin)>>,
                                   <<"proposed", unwrap_or_none(res.proposed)>>,
                                   <<"sender", AddrToString(sender)>> >>)]

update(store, sender, upd) ==
    LET new_state == transition_state(store, sender, upd) IN
    IF new_state.err # "Ok"
    THEN [result |-> new_state.err, storage |-> store, response |-> None]
    ELSE LET saved == Some(new_state.val)
             res == query(saved)
         IN  [result |-> "Ok",
              storage |-> saved,
              response |-> Some(<< <<"action", "update_admin">>,
                                   <<"admin", unwrap_or_none(res.admin)>>,
                                   <<"proposed", unwrap_or_none(res.proposed)>>,
                                   <<"sender", AddrToString(sender)>> >>)]

-----------------------------------------------------------------------------
(* The state machine: one step per call of initialize or update *)

Call(fn, msg, sender) == [fn |-> fn, msg |-> msg, sender |-> sender]

NoCall == Call("none", [type |-> "none", arg |-> None], None)

\* the identities the overlapping calls use: an admin and a candidate
TxIdentities == {AddrPool[1], AddrPool[2]}

\* the transactions that may be in flight together
Transactions == {"tx1", "tx2"}

\* a transaction that runs no call
IdleTx ==
    [pc |-> "idle", call |-> NoCall,
     st |-> AdminState(FALSE, None, None), new_state |-> AdminState(FALSE, None, None)]

Init ==
    /\ storage = None
    /\ preStorage = None
    /\ lastCall = NoCall
    /\ result = "none"
    /\ response = None
    /\ initialized = FALSE
    /\ view = None
    /\ proposal = None
    /\ inflight = [t \in Transactions |-> IdleTx]
    /\ exclusive = TRUE

\* the variables after a call of initialize
AfterInitialize(init_action) ==
    LET r == initialize(storage, init_action) IN
    [storage |-> r.storage,
     preStorage |-> storage,
     lastCall |-> Call("initialize", init_action, None),
     result |-> r.result,
     response |-> None,
     initialized |-> (initialized \/ r.result = "Ok"),
     view |-> None,
     proposal |-> IF r.result = "Ok" THEN None ELSE proposal]

\* the variables after a call of update
AfterUpdate(sender, upd) ==
    LET r == update(storage, sender, upd) IN
    [storage |-> r.storage,
     preStorage |-> storage,
     lastCall |-> Call("update", upd, Some(sender)),
     result |-> r.result,
     response |-> r.response,
     initialized |-> initialized,
     view |-> None,
     proposal |-> IF r.result # "Ok" THEN proposal
                  ELSE IF upd.type = "ProposeNewAdmin"
                  THEN Some([by |-> sender, candidate |-> addr_validate(unwrap(upd.arg)).val])
                  ELSE None]

InitializeSetInitialAdmin ==
    \E raw \in RawIdentities :
        LET n == AfterInitialize(SetInitialAdmin(raw)) IN
        /\ storage' = n.storage
        /\ preStorage' = n.preStorage
        /\ lastCall' = n.lastCall
        /\ result' = n.result
        /\ response' = n.response
        /\ initialized' = n.initialized
        /\ view' = n.view
        /\ proposal' = n.proposal
        /\ UNCHANGED <<inflight, exclusive>>

InitializeAbolishAdminRole ==
    LET n == AfterInitialize(InitAbolishAdminRole) IN
    /\ storage' = n.storage
    /\ preStorage' = n.preStorage
    /\ lastCall' = n.lastCall
    /\ result' = n.result
    /\ response' = n.response
    /\ initialized' = n.initialized
    /\ view' = n.view
    /\ proposal' = n.proposal
    /\ UNCHANGED <<inflight, exclusive>>

UpdateProposeNewAdmin ==
    \E sender \in Senders, raw \in RawIdentities :
        LET n == AfterUpdate(sender, ProposeNewAdmin(raw)) IN
        /\ storage' = n.storage
        /\ preStorage' = n.preStorage
        /\ lastCall' = n.lastCall
        /\ result' = n.result
        /\ response' = n.response
        /\ initialized' = n.initialized
        /\ view' = n.view
        /\ proposal' = n.proposal
        /\ UNCHANGED <<inflight, exclusive>>

UpdateClearProposed ==
    \E sender \in Senders :
        LET n == AfterUpdate(sender, ClearProposed) IN
        /\ storage' = n.storage
        /\ preStorage' = n.preStorage
        /\ lastCall' = n.lastCall
        /\ result' = n.result
        /\ response' = n.response
        /\ initialized' = n.initialized
        /\ view' = n.view
        /\ proposal' = n.proposal
        /\ UNCHANGED <<inflight, exclusive>>

UpdateAcceptProposed ==
    \E sender \in Senders :
        LET n == AfterUpdate(sender, AcceptProposed) IN
        /\ storage' = n.storage
        /\ preStorage' = n.preStorage
        /\ lastCall' = n.lastCall
        /\ result' = n.result
        /\ response' = n.response
        /\ initialized' = n.initialized
        /\ view' = n.view
        /\ proposal' = n.proposal
        /\ UNCHANGED <<inflight, exclusive>>

UpdateAbolishAdminRole ==
    \E sender \in Senders :
        LET n == AfterUpdate(sender, AbolishAdminRole) IN
        /\ storage' = n.storage
        /\ preStorage' = n.preStorage
        /\ lastCall' = n.lastCall
        /\ result' = n.result
        /\ response' = n.response
        /\ initialized' = n.initialized
        /\ view' = n.view
        /\ proposal' = n.proposal
        /\ UNCHANGED <<inflight, exclusive>>

\* a call of query: a pure read of the stored record
Query ==
    /\ view' = Some(query(storage))
    /\ preStorage' = storage
    /\ lastCall' = Call("query", [type |-> "query", arg |-> None], None)
    /\ result' = "Ok"
    /\ response' = None
    /\ UNCHANGED <<storage, initialized, proposal, inflight, exclusive>>

Next ==
    \/ InitializeSetInitialAdmin
    \/ InitializeAbolishAdminRole
    \/ UpdateProposeNewAdmin
    \/ UpdateClearProposed
    \/ UpdateAcceptProposed
    \/ UpdateAbolishAdminRole
    \/ Query

Spec == Init /\ [][Next]_vars

\* the value fn state substitutes for a missing record
DefaultRecord == AdminState(FALSE, None, None)

\* a store that starts either without a record or holding the default record
InitExplicitDefault ==
    /\ storage \in {None, Some(DefaultRecord)}
    /\ preStorage = storage
    /\ lastCall = NoCall
    /\ result = "none"
    /\ response = None
    /\ initialized = FALSE
    /\ view = None
    /\ proposal = None
    /\ inflight = [t \in Transactions |-> IdleTx]
    /\ exclusive = TRUE

SpecExplicitDefault == InitExplicitDefault /\ [][Next]_vars

-----------------------------------------------------------------------------
(* The same two mutations run step by step: the load, the assertions, which  *)
(* read the storage again, and the save are separate steps of a transaction, *)
(* and the host decides whether two transactions may overlap.                *)

\* the host lets a call start: alone when it is exclusive, any time otherwise
HostAdmits(t) ==
    exclusive => \A u \in Transactions \ {t} : inflight[u].pc = "idle"

\* the variables a step of a transaction does not touch
TxFrame == UNCHANGED <<lastCall, result, response, initialized, view, proposal, exclusive>>

\* initialize up to its save: the load, the two guards and the validation
TxBeginInitialize(t) ==
    \E init_action \in {SetInitialAdmin(raw) : raw \in TxIdentities} \cup {InitAbolishAdminRole} :
        LET r == initialize(storage, init_action) IN
        /\ inflight[t].pc = "idle"
        /\ HostAdmits(t)
        /\ inflight' = [inflight EXCEPT ![t] =
              IF r.result = "Ok"
              THEN [pc |-> "checked", call |-> Call("initialize", init_action, None),
                    st |-> state(storage), new_state |-> unwrap(r.storage)]
              ELSE IdleTx]
        /\ UNCHANGED <<storage, preStorage>>
        /\ TxFrame

\* transition_state up to the match: the load and the abolished guard
TxBeginUpdate(t) ==
    \E sender \in TxIdentities,
       upd \in {ProposeNewAdmin(raw) : raw \in TxIdentities}
                \cup {ClearProposed, AcceptProposed, AbolishAdminRole} :
        LET st == state(storage) IN
        /\ inflight[t].pc = "idle"
        /\ HostAdmits(t)
        /\ inflight' = [inflight EXCEPT ![t] =
              IF st.abolished
              THEN IdleTx
              ELSE [pc |-> "loaded", call |-> Call("update", upd, Some(sender)),
                    st |-> st, new_state |-> st]]
        /\ UNCHANGED <<storage, preStorage>>
        /\ TxFrame

\* transition_state, the match: the assertion reads the storage as it is now,
\* the new record is made from the record loaded at the start
TxTransition(t) ==
    LET tx == inflight[t]
        r == match_event(tx.st, storage, unwrap(tx.call.sender), tx.call.msg)
    IN  /\ tx.pc = "loaded"
        /\ inflight' = [inflight EXCEPT ![t] =
              IF r.err = "Ok"
              THEN [tx EXCEPT !.pc = "checked", !.new_state = r.val]
              ELSE IdleTx]
        /\ UNCHANGED <<storage, preStorage>>
        /\ TxFrame

\* the save that ends a successful initialize or update; preStorage keeps the
\* record the save replaces
TxSave(t) ==
    /\ inflight[t].pc = "checked"
    /\ storage' = Some(inflight[t].new_state)
    /\ preStorage' = storage
    /\ inflight' = [inflight EXCEPT ![t] = IdleTx]
    /\ TxFrame

InitInterleaved ==
    /\ storage = None
    /\ preStorage = None
    /\ lastCall = NoCall
    /\ result = "none"
    /\ response = None
    /\ initialized = FALSE
    /\ view = None
    /\ proposal = None
    /\ inflight = [t \in Transactions |-> IdleTx]
    /\ exclusive \in BOOLEAN

NextInterleaved ==
    \/ \E t \in Transactions : TxBeginInitialize(t)
    \/ \E t \in Transactions : TxBeginUpdate(t)
    \/ \E t \in Transactions : TxTransition(t)
    \/ \E t \in Transactions : TxSave(t)

SpecInterleaved == InitInterleaved /\ [][NextInterleaved]_vars

-----------------------------------------------------------------------------
(* Vocabulary of the properties *)

\* the record the last call loaded, and the record it left
pre == state(preStorage)

post == state(storage)

IsInitialize(type) == lastCall.fn = "initialize" /\ lastCall.msg.type = type

\* the raw identity string the last call carried, and whether the validator takes it
rawArg == unwrap(lastCall.msg.arg)

rawIsValid == addr_validate(rawArg).err = "Ok"

validatedArg == addr_validate(rawArg).val

\* the last call was one of the two mutations
IsMutation == lastCall.fn \in {"initialize", "update"}

IsUpdate(type) == lastCall.fn = "update" /\ lastCall.msg.type = type

theCaller == lastCall.sender

Uninitialized(st) == ~st.abolished /\ st.admin = None /\ st.proposed = None

Owned(st) == ~st.abolished /\ st.admin # None /\ st.proposed = None

OwnedWithProposal(st) == ~st.abolished /\ st.admin # None /\ st.proposed # None

TypeOK ==
    /\ storage \in {None} \cup
          {Some(AdminState(b, a, p)) :
              b \in BOOLEAN,
              a \in {None} \cup {Some(i) : i \in Senders},
              p \in {None} \cup {Some(i) : i \in Senders}}
    /\ result \in {"none", "Ok", "Std", "NotAdmin", "NotProposedAdmin",
                   "AlreadyInitialized", "AdminRoleAbolished"}
    /\ initialized \in BOOLEAN

-----------------------------------------------------------------------------
(* Properties *)

AdminOnlyUpdates == {"ProposeNewAdmin", "ClearProposed", "AbolishAdminRole"}

\* C1: once the record is abolished, every call of initialize or update, by
\* any caller and with any argument, returns AdminRoleAbolished and leaves the
\* stored record as it was, so abolished stays true.
C1_AbolishedIsTerminal ==
    (IsMutation /\ pre.abolished) =>
        /\ result = "AdminRoleAbolished"
        /\ storage = preStorage
        /\ post.abolished

\* a call made on an abolished record: a SetInitialAdmin with a well formed identity
C1_Witness ==
    /\ pre.abolished
    /\ IsInitialize("SetInitialAdmin")
    /\ rawIsValid
    /\ result = "AdminRoleAbolished"

\* C2: in every reachable state, abolished implies admin = None and proposed = None.
C2_AbolishedHasNoAdminNoProposed ==
    post.abolished => (post.admin = None /\ post.proposed = None)

\* the record was abolished by its admin while a proposal was pending
C2_Witness ==
    /\ post.abolished
    /\ OwnedWithProposal(pre)
    /\ IsUpdate("AbolishAdminRole")
    /\ result = "Ok"

\* C3: in every reachable state, a pending proposal implies an admin.
C3_ProposedImpliesAdmin ==
    post.proposed # None => post.admin # None

\* a proposal has just been made
C3_Witness ==
    /\ post.proposed # None
    /\ IsUpdate("ProposeNewAdmin")
    /\ result = "Ok"

\* C4: after one successful initialize, every later initialize call fails and
\* leaves the record unchanged, with AlreadyInitialized whenever admin is set.
C4_InitializeSucceedsAtMostOnce ==
    [][(initialized /\ lastCall'.fn = "initialize") =>
          /\ result' # "Ok"
          /\ storage' = storage
          /\ (state(storage).admin # None => result' = "AlreadyInitialized")]_vars

\* a second initialize refused after a proposal was made in between
C4_Witness ==
    /\ initialized
    /\ IsInitialize("SetInitialAdmin")
    /\ rawIsValid
    /\ OwnedWithProposal(pre)
    /\ result = "AlreadyInitialized"

\* C5: in every non-abolished state, Uninitialized included, ProposeNewAdmin,
\* ClearProposed and AbolishAdminRole return NotAdmin to every caller that is
\* not the current admin, and the record is unchanged.
C5_AdminOnlyUpdatesRejectOthers ==
    (/\ lastCall.fn = "update"
     /\ lastCall.msg.type \in AdminOnlyUpdates
     /\ ~pre.abolished
     /\ pre.admin # theCaller) =>
        (result = "NotAdmin" /\ storage = preStorage)

\* an admin-only update attempted before any admin was set
C5_Witness ==
    /\ Uninitialized(pre)
    /\ IsUpdate("AbolishAdminRole")
    /\ result = "NotAdmin"

\* C6 as stated: AcceptProposed returns NotProposedAdmin whenever proposed is
\* None or the caller is not the proposed admin.
C6_AcceptRejectedAsStated ==
    (IsUpdate("AcceptProposed") /\ (pre.proposed = None \/ pre.proposed # theCaller)) =>
        result = "NotProposedAdmin"

\* C6: in every non-abolished state, AcceptProposed returns NotProposedAdmin
\* whenever proposed is None or the caller is not the proposed admin, the
\* current admin included.
C6_AcceptRejectsNonProposed ==
    (/\ IsUpdate("AcceptProposed")
     /\ ~pre.abolished
     /\ (pre.proposed = None \/ pre.proposed # theCaller)) =>
        result = "NotProposedAdmin"

\* the current admin tries to accept while a proposal for someone else is pending
C6_Witness ==
    /\ IsUpdate("AcceptProposed")
    /\ OwnedWithProposal(pre)
    /\ pre.admin = theCaller
    /\ pre.proposed # theCaller
    /\ result = "NotProposedAdmin"

\* C7: with a proposal pending, AcceptProposed called by the proposed admin
\* succeeds and leaves admin = Some(caller), proposed = None, abolished = false.
C7_AcceptByProposedPromotesCaller ==
    (/\ IsUpdate("AcceptProposed")
     /\ OwnedWithProposal(pre)
     /\ pre.proposed = theCaller) =>
        /\ result = "Ok"
        /\ post = AdminState(FALSE, theCaller, None)

\* a proposed admin other than the current one has accepted
C7_Witness ==
    /\ IsUpdate("AcceptProposed")
    /\ OwnedWithProposal(pre)
    /\ pre.proposed = theCaller
    /\ pre.admin # theCaller
    /\ result = "Ok"

\* C8: with an admin set and the role not abolished, ProposeNewAdmin called by
\* the admin with a well formed identity succeeds, sets proposed to the
\* validated identity (overwriting a pending one) and leaves admin and
\* abolished as they were.
C8_ProposeSetsProposedOnly ==
    (/\ IsUpdate("ProposeNewAdmin")
     /\ ~pre.abolished
     /\ pre.admin # None
     /\ pre.admin = theCaller
     /\ rawIsValid) =>
        /\ result = "Ok"
        /\ post.proposed = Some(validatedArg)
        /\ post.admin = pre.admin
        /\ post.abolished = pre.abolished

\* a pending proposal has been overwritten by a different one
C8_Witness ==
    /\ IsUpdate("ProposeNewAdmin")
    /\ OwnedWithProposal(pre)
    /\ pre.admin = theCaller
    /\ result = "Ok"
    /\ post.proposed # pre.proposed

\* C9: with an admin set and the role not abolished, with or without a pending
\* proposal, AbolishAdminRole called by the admin succeeds and leaves
\* abolished = true, admin = None, proposed = None.
C9_AbolishByAdmin ==
    (/\ IsUpdate("AbolishAdminRole")
     /\ ~pre.abolished
     /\ pre.admin # None
     /\ pre.admin = theCaller) =>
        /\ result = "Ok"
        /\ post = AdminState(TRUE, None, None)

\* the admin has abolished the role with no proposal pending
C9_Witness ==
    /\ IsUpdate("AbolishAdminRole")
    /\ Owned(pre)
    /\ pre.admin = theCaller
    /\ result = "Ok"

\* C10: on an uninitialized record, initialize(SetInitialAdmin) with a well
\* formed identity succeeds, takes no caller identity, and leaves
\* admin = Some(validated identity), proposed = None, abolished = false.
C10_SetInitialAdmin ==
    (/\ IsInitialize("SetInitialAdmin")
     /\ Uninitialized(pre)
     /\ rawIsValid) =>
        /\ result = "Ok"
        /\ post = AdminState(FALSE, Some(validatedArg), None)

\* the first admin has been set on a store that held no record
C10_Witness ==
    /\ IsInitialize("SetInitialAdmin")
    /\ preStorage = None
    /\ result = "Ok"
    /\ post.admin = Some(rawArg)

\* C11: on an uninitialized record, initialize(AbolishAdminRole) succeeds and
\* leaves abolished = true, admin = None, proposed = None; the abolished state
\* is thus reached without an admin ever having been stored.
C11_InitializeAbolish ==
    (IsInitialize("AbolishAdminRole") /\ Uninitialized(pre)) =>
        /\ result = "Ok"
        /\ post = AdminState(TRUE, None, None)

\* the role was abolished by the call that created the record, so no record,
\* and no admin, was ever stored before
C11_Witness ==
    /\ IsInitialize("AbolishAdminRole")
    /\ preStorage = None
    /\ result = "Ok"
    /\ storage = Some(AdminState(TRUE, None, None))

\* C12: whenever initialize or update returns an error, whichever it is, the
\* stored record, its presence in the store included, is what it was before
\* the call.
C12_ErrorsLeaveStorageUntouched ==
    (IsMutation /\ result # "Ok") => storage = preStorage

\* a validation error on a store that holds no record leaves it without one
C12_Witness ==
    /\ IsInitialize("SetInitialAdmin")
    /\ result = "Std"
    /\ preStorage = None
    /\ storage = None

\* C13: when the validator rejects the raw identity, SetInitialAdmin on an
\* uninitialized record and ProposeNewAdmin called by the current admin both
\* fail with the validator's error and change neither admin nor proposed.
C13_ValidationErrorPropagates ==
    /\ (IsInitialize("SetInitialAdmin") /\ Uninitialized(pre) /\ ~rawIsValid) =>
          /\ result = addr_validate(rawArg).err
          /\ post.admin = pre.admin
          /\ post.proposed = pre.proposed
    /\ (/\ IsUpdate("ProposeNewAdmin")
        /\ ~pre.abolished
        /\ pre.admin # None
        /\ pre.admin = theCaller
        /\ ~rawIsValid) =>
          /\ result = addr_validate(rawArg).err
          /\ post.admin = pre.admin
          /\ post.proposed = pre.proposed

\* the admin proposed a malformed identity while another proposal was pending
C13_Witness ==
    /\ IsUpdate("ProposeNewAdmin")
    /\ OwnedWithProposal(pre)
    /\ pre.admin = theCaller
    /\ ~rawIsValid
    /\ result = "Std"

\* the string an optional identity is viewed as: absent, or the identity's string
Viewed(o) == IF o = None THEN None ELSE Some(AddrToString(unwrap(o)))

\* C14: query answers exactly the pair (admin, proposed) of the stored record,
\* None being an absent value and never a string; the answer is (None, None)
\* on an uninitialized and on an abolished record.
C14_QueryReflectsRecord ==
    lastCall.fn = "query" =>
        /\ view = Some(SecureAdminResponse(Viewed(post.admin), Viewed(post.proposed)))
        /\ (unwrap(view).admin = None <=> post.admin = None)
        /\ (unwrap(view).proposed = None <=> post.proposed = None)
        /\ (Uninitialized(post) \/ post.abolished) =>
              view = Some(SecureAdminResponse(None, None))

\* a query answered while a proposal for somebody else than the admin is pending
C14_Witness ==
    /\ lastCall.fn = "query"
    /\ OwnedWithProposal(post)
    /\ post.admin # post.proposed
    /\ view = Some(SecureAdminResponse(post.admin, post.proposed))

\* the other representation of an uninitialized store
Twin(store) == IF store = None THEN Some(DefaultRecord) ELSE None

\* C15: a store with no record and a store holding the explicit default
\* record answer every call alike: the same result, the same response, the
\* same query answers and the same resulting record.
C15_AbsentEqualsExplicitDefault ==
    (preStorage \in {None, Some(DefaultRecord)}) =>
        /\ lastCall.fn = "initialize" =>
              LET r == initialize(Twin(preStorage), lastCall.msg) IN
              /\ result = r.result
              /\ post = state(r.storage)
        /\ lastCall.fn = "update" =>
              LET r == update(Twin(preStorage), unwrap(lastCall.sender), lastCall.msg) IN
              /\ result = r.result
              /\ response = r.response
              /\ post = state(r.storage)
        /\ lastCall.fn = "query" => view = Some(query(Twin(preStorage)))
        /\ current(preStorage) = current(Twin(preStorage))
        /\ proposed(preStorage) = proposed(Twin(preStorage))
        /\ \A a \in Senders :
              /\ is_admin(preStorage, a) = is_admin(Twin(preStorage), a)
              /\ is_proposed(preStorage, a) = is_proposed(Twin(preStorage), a)

\* the first admin was set on a store that held the explicit default record
C15_Witness ==
    /\ preStorage = Some(DefaultRecord)
    /\ IsInitialize("SetInitialAdmin")
    /\ result = "Ok"
    /\ Owned(post)

\* C16: ClearProposed called by the current admin succeeds with and without a
\* pending proposal, leaves the same admin with no proposal, and a second
\* ClearProposed by the admin succeeds again and gives the same record.
C16_ClearProposedIdempotent ==
    (/\ IsUpdate("ClearProposed")
     /\ ~pre.abolished
     /\ pre.admin # None
     /\ pre.admin = theCaller) =>
        /\ result = "Ok"
        /\ post = AdminState(FALSE, pre.admin, None)
        /\ LET again == update(storage, unwrap(theCaller), ClearProposed) IN
           /\ again.result = "Ok"
           /\ again.storage = storage

\* the admin cleared a pending proposal
C16_Witness ==
    /\ IsUpdate("ClearProposed")
    /\ OwnedWithProposal(pre)
    /\ pre.admin = theCaller
    /\ result = "Ok"
    /\ Owned(post)

\* the record an abolish operation must leave
Abolished == AdminState(TRUE, None, None)

\* C17: in every reachable non-abolished state an abolish operation succeeds:
\* initialize(AbolishAdminRole) when no admin is set, update(AbolishAdminRole)
\* called by the current admin otherwise, each leaving the abolished record.
C17_AbolishAlwaysAvailable ==
    ~post.abolished =>
        IF post.admin = None
        THEN LET r == initialize(storage, InitAbolishAdminRole) IN
             r.result = "Ok" /\ state(r.storage) = Abolished
        ELSE LET r == update(storage, unwrap(post.admin), AbolishAdminRole) IN
             r.result = "Ok" /\ state(r.storage) = Abolished

\* a state with a pending proposal, from which the admin can abolish the role
C17_Witness ==
    /\ OwnedWithProposal(post)
    /\ post.admin # post.proposed
    /\ update(storage, unwrap(post.admin), AbolishAdminRole).result = "Ok"

\* the edges of the state diagram, between the record loaded and the record left
EdgeSetInitialAdmin ==
    IsInitialize("SetInitialAdmin") /\ Uninitialized(pre) /\ Owned(post)

EdgeInitAbolish ==
    IsInitialize("AbolishAdminRole") /\ Uninitialized(pre) /\ post = Abolished

EdgePropose ==
    /\ IsUpdate("ProposeNewAdmin") /\ Owned(pre) /\ pre.admin = theCaller
    /\ OwnedWithProposal(post) /\ post.admin = pre.admin

EdgeProposeOverwrite ==
    /\ IsUpdate("ProposeNewAdmin") /\ OwnedWithProposal(pre) /\ pre.admin = theCaller
    /\ OwnedWithProposal(post) /\ post.admin = pre.admin

EdgeClear ==
    /\ IsUpdate("ClearProposed") /\ OwnedWithProposal(pre) /\ pre.admin = theCaller
    /\ Owned(post) /\ post.admin = pre.admin

EdgeAccept ==
    /\ IsUpdate("AcceptProposed") /\ OwnedWithProposal(pre) /\ pre.proposed = theCaller
    /\ Owned(post) /\ post.admin = pre.proposed

EdgeAbolishOwned ==
    IsUpdate("AbolishAdminRole") /\ Owned(pre) /\ pre.admin = theCaller /\ post = Abolished

EdgeAbolishWithProposal ==
    /\ IsUpdate("AbolishAdminRole") /\ OwnedWithProposal(pre) /\ pre.admin = theCaller
    /\ post = Abolished

\* C18: every call that changes the record follows one of the eight edges of
\* the state diagram, made by the caller the edge names, and no update
\* succeeds on an uninitialized record.
C18_OnlyDiagramEdges ==
    /\ (storage # preStorage) =>
          \/ EdgeSetInitialAdmin
          \/ EdgeInitAbolish
          \/ EdgePropose
          \/ EdgeProposeOverwrite
          \/ EdgeClear
          \/ EdgeAccept
          \/ EdgeAbolishOwned
          \/ EdgeAbolishWithProposal
    /\ (lastCall.fn = "update" /\ Uninitialized(pre)) => result # "Ok"

\* a pending proposal was replaced by a different one along the overwrite edge
C18_Witness ==
    /\ storage # preStorage
    /\ EdgeProposeOverwrite
    /\ post.proposed # pre.proposed

\* C19: admin is None only on an uninitialized or an abolished record, and
\* after a successful initialize every state has an admin or is abolished.
C19_AdminNoneOnlyUninitializedOrAbolished ==
    /\ post.admin = None => (Uninitialized(post) \/ post.abolished)
    /\ initialized => (post.admin # None \/ post.abolished)

\* the role has changed hands after the record was initialized
C19_Witness ==
    /\ initialized
    /\ IsUpdate("AcceptProposed")
    /\ result = "Ok"
    /\ post.admin # pre.admin
    /\ post.admin # None

\* C20: the store holds no record in every state before the first successful
\* initialize, whatever calls failed before it, and holds one in every state
\* after it, abolition included.
C20_RecordExistsIffInitialized ==
    initialized <=> storage # None

\* an update made before any initialize has failed without creating the record
C20_Witness ==
    /\ ~initialized
    /\ IsUpdate("ProposeNewAdmin")
    /\ rawIsValid
    /\ result = "NotAdmin"
    /\ storage = None

\* C21: the state and caller guards come before the validation of the
\* identity.  With a malformed identity, ProposeNewAdmin fails with
\* AdminRoleAbolished on an abolished record, with NotAdmin when the caller is
\* not the admin, and with the validation error only for the admin;
\* SetInitialAdmin fails with AdminRoleAbolished on an abolished record, with
\* AlreadyInitialized when an admin is set, and with the validation error only
\* on an uninitialized record.
C21_GuardsBeforeValidation ==
    /\ (IsUpdate("ProposeNewAdmin") /\ ~rawIsValid) =>
          result = IF pre.abolished THEN "AdminRoleAbolished"
                   ELSE IF pre.admin # theCaller THEN "NotAdmin"
                   ELSE addr_validate(rawArg).err
    /\ (IsInitialize("SetInitialAdmin") /\ ~rawIsValid) =>
          result = IF pre.abolished THEN "AdminRoleAbolished"
                   ELSE IF pre.admin # None THEN "AlreadyInitialized"
                   ELSE addr_validate(rawArg).err

\* somebody who is not the admin proposed a malformed identity and was told NotAdmin
C21_Witness ==
    /\ IsUpdate("ProposeNewAdmin")
    /\ ~rawIsValid
    /\ Owned(pre)
    /\ pre.admin # theCaller
    /\ result = "NotAdmin"

\* an optional identity as an attribute value
Rendered(o) == IF o = None THEN "None" ELSE AddrToString(unwrap(o))

\* C22: a successful update answers with the attributes action = update_admin,
\* admin and proposed as they are in the record after the update (None as the
\* string "None") and sender = the caller; a failed update answers with none.
C22_UpdateAttributes ==
    lastCall.fn = "update" =>
        IF result = "Ok"
        THEN response = Some(<< <<"action", "update_admin">>,
                                <<"admin", Rendered(post.admin)>>,
                                <<"proposed", Rendered(post.proposed)>>,
                                <<"sender", unwrap(theCaller)>> >>)
        ELSE response = None

\* the attributes of an accepted proposal: the caller is the admin, proposed is "None"
C22_Witness ==
    /\ IsUpdate("AcceptProposed")
    /\ result = "Ok"
    /\ response = Some(<< <<"action", "update_admin">>,
                          <<"admin", unwrap(theCaller)>>,
                          <<"proposed", "None">>,
                          <<"sender", unwrap(theCaller)>> >>)

\* C24: an update succeeds only for the admin or the proposed admin of the
\* record it was made on; an update by anybody else, a former admin and a
\* cleared or overwritten candidate included, changes nothing.
C24_OnlyAdminOrProposedChange ==
    lastCall.fn = "update" =>
        /\ result = "Ok" => (theCaller = pre.admin \/ theCaller = pre.proposed)
        /\ (theCaller # pre.admin /\ theCaller # pre.proposed) => storage = preStorage

\* an update by a third party on an initialized record with a pending proposal
C24_Witness ==
    /\ IsUpdate("ClearProposed")
    /\ initialized
    /\ OwnedWithProposal(pre)
    /\ theCaller # pre.admin
    /\ theCaller # pre.proposed
    /\ result = "NotAdmin"
    /\ storage = preStorage

\* what the identity validator can return for the strings in use
ValidatorOutputs ==
    {addr_validate(raw).val : raw \in {r \in RawIdentities : addr_validate(r).err = "Ok"}}

\* C26: every identity stored in admin or proposed is an output of the
\* identity validator, the admin stored by AcceptProposed included.
C26_StoredIdentitiesValidated ==
    /\ post.admin # None => unwrap(post.admin) \in ValidatorOutputs
    /\ post.proposed # None => unwrap(post.proposed) \in ValidatorOutputs

\* an admin stored by AcceptProposed, from the caller and without validation
C26_Witness ==
    /\ IsUpdate("AcceptProposed")
    /\ result = "Ok"
    /\ post.admin = theCaller
    /\ post.admin # pre.admin

\* the standing proposal: made by this identity for that candidate
ProposedBy(by, candidate) == Some([by |-> unwrap(by), candidate |-> unwrap(candidate)])

\* a pending proposed identity comes from a ProposeNewAdmin of the current admin
PendingComesFromAdmin ==
    post.proposed # None =>
        (post.admin # None /\ proposal = ProposedBy(post.admin, post.proposed))

\* a step that replaces an admin by another one is an AcceptProposed called by
\* the new admin, whom the old admin had proposed and not cleared or replaced since
AdminChangeIsAcceptance ==
    LET old == state(storage).admin
        new == state(storage').admin
    IN  (old # None /\ new # None /\ new # old) =>
            /\ lastCall'.fn = "update"
            /\ lastCall'.msg.type = "AcceptProposed"
            /\ lastCall'.sender = new
            /\ proposal = ProposedBy(old, new)

\* C25: the transfer is two-step.  In every state a pending proposal was made
\* by the identity that is still the admin, and every change from one admin to
\* another is an AcceptProposed by the new admin that follows a
\* ProposeNewAdmin of the old admin for it, with no ClearProposed, overwrite
\* or admin change in between.
C25_TransferIsTwoStep ==
    []PendingComesFromAdmin /\ [][AdminChangeIsAcceptance]_vars

\* the role has passed to the candidate the previous admin had proposed
C25_Witness ==
    /\ IsUpdate("AcceptProposed")
    /\ result = "Ok"
    /\ pre.admin # None
    /\ post.admin # pre.admin
    /\ post.admin = pre.proposed
    /\ proposal = None

\* the invariants of the record
RecordInvariants ==
    /\ post.abolished => (post.admin = None /\ post.proposed = None)
    /\ post.proposed # None => post.admin # None

\* an abolished record is not replaced
AbolishedStays == state(storage).abolished => storage' = storage

\* C23: the load and the save of a mutation are separate steps.  When the host
\* runs one call at a time, the record invariants hold in every state and an
\* abolished record is never replaced; when two calls may overlap, the save of
\* one overwrites the save of the other, and an abolished record is replaced
\* by one that is not (the state C23_Witness describes is reached).
C23_AtomicCallsKeepInvariants ==
    [](exclusive => RecordInvariants) /\ [][exclusive => AbolishedStays]_vars

\* two overlapping calls: the save of one has replaced an abolished record,
\* saved by the other, by a record that is not abolished
C23_Witness ==
    /\ ~exclusive
    /\ state(preStorage).abolished
    /\ ~post.abolished
    /\ post.admin # None

====
